---- MODULE Spec2Model ----
(***************************************************************************)
(* Model of sh-interrupt/catcher.c: a process that puts its controlling    *)
(* terminal into non-canonical, no-echo mode, installs handlers for        *)
(* SIGINT, SIGQUIT, SIGHUP and SIGTERM, reads the terminal one byte at a   *)
(* time and restores the terminal in cleanup() before exit(0).             *)
(*                                                                         *)
(* The process is a stack of frames: main at the bottom, one frame per     *)
(* signal handler that interrupted the frame below it.  Only the top frame *)
(* runs.  A signal may be delivered between any two steps of the top       *)
(* frame.  Calls whose result the code tests (open, tcgetpgrp, tcsetpgrp,  *)
(* tcgetattr, tcsetattr, read) may fail; calls whose result it ignores     *)
(* (write, printf, sigaction) are taken to succeed.                        *)
(***************************************************************************)
EXTENDS Integers, Sequences, FiniteSets, TLC

\* ---------------------------------------------------------------- bounds
\* signals raised over one run
MaxSignals == 2
\* results returned by read() because of terminal input over one run
MaxReads == 2

\* ------------------------------------------------------------- constants
SIGHUP == 1
SIGINT == 2
SIGQUIT == 3
SIGTERM == 15

Signals == {SIGHUP, SIGINT, SIGQUIT, SIGTERM}
NotifySignals == {SIGINT, SIGQUIT}
TerminateSignals == {SIGHUP, SIGTERM}

\* mutant: the macro without its mask
CtrlIdentity(x) == x

\* #define CTRL(x) (x&037)
CTRL(x) == x % 32
\* #define CEOF CTRL('d')
CEOF == CTRL(100)
\* ttystate.c_cc[VQUIT] = CTRL('g')
QuitSentinel == CTRL(103)

\* terminal attributes: the ICANON and ECHO bits of c_lflag, c_cc[VQUIT],
\* c_cc[VEOF]
QuitChars == {7, 28}
EofChars == {4}
Modes == [icanon : BOOLEAN, echo : BOOLEAN, vquit : QuitChars, veof : EofChars]
\* a zero-initialised struct termios (file-scope object)
ZeroMode == [icanon |-> FALSE, echo |-> FALSE, vquit |-> 0, veof |-> 0]

\* what read(_global_fd, c, 1) hands to the switch: the return value, c[0]
\* and errno
RByte(b) == [ret |-> 1, ch |-> b, err |-> "none"]
RZero == [ret |-> 0, ch |-> 0, err |-> "none"]
RErr(e) == [ret |-> 0 - 1, ch |-> 0, err |-> e]
\* bytes the terminal can deliver: Ctrl-D, 'a', 'd'
InputBytes == {4, 97, 100}
InputResults == {RByte(b) : b \in InputBytes} \cup {RZero, RErr("EIO")}

\* descriptors open() can return: failure, 0 (standard input was closed),
\* or the lowest free descriptor above the standard three
OpenResults == {0 - 1, 0, 3}

VARIABLES
    status,        \* "running", "exited" (exit was called), "killed" (default action of a signal)
    exitCode,      \* argument of exit; -1 while none
    killedBy,      \* signal whose default action ended the process; 0 while none
    stack,         \* frames [fn, sig, pc, inv]; the last one runs
    fd,            \* _global_fd
    oldttystate,   \* oldttystate
    ttystate,      \* ttystate
    cleanupP,      \* cleanupP
    rd,            \* value switched on in the read loop
    openFds,       \* descriptors of the terminal that are open
    dev,           \* attributes of the terminal device
    disp,          \* disposition of each signal
    pending,       \* signals raised and not yet delivered
    out,           \* what printf put on the stdout stream, in order
    written,       \* what write(1, ...) put on descriptor 1, in order
    devInit,       \* history: attributes of the device when the process started
    results,       \* history: read results handed to the switch, in order
    raised,        \* history: how many times each signal was raised
    restoreWrites, \* history: calls of tcsetattr in cleanup
    restoreOK,     \* history: those that succeeded
    closeCalls,    \* history: calls of close
    cleanupCalls,  \* history: calls of cleanup
    rawApplied,    \* history: the tcsetattr of main succeeded
    mainExit,      \* history: why main called exit_handler; "none" while it has not
    steps          \* history: startup steps main has performed, in order

prog == <<fd, oldttystate, ttystate, cleanupP, rd>>
sys == <<openFds, dev, disp, pending>>
ended == <<status, exitCode, killedBy>>
hist == <<devInit, results, raised, restoreWrites, restoreOK,
          closeCalls, cleanupCalls, rawApplied, mainExit, steps>>
io == <<out, written>>
vars == <<ended, stack, prog, sys, io, hist>>

\* ------------------------------------------------------------- helpers
Top == stack[Len(stack)]
MainFrame == stack[1]
Running == status = "running"
At(f, p) == Running /\ Top.fn \in f /\ Top.pc = p
AtMain(p) == At({"main"}, p)
\* mutant: the attribute query moved in front of the process-group calls
GotoSwapped(p) ==
    stack' = [stack EXCEPT ![Len(stack)].pc =
                 IF p = "getpgrp" THEN "getattr"
                 ELSE IF p = "derive" THEN "getpgrp"
                 ELSE IF p = "getattr" THEN "derive"
                 ELSE p]

Goto(p) == stack' = [stack EXCEPT ![Len(stack)].pc = p]
Emit(k, c) == out' = Append(out, [k |-> k, c |-> c])
Write(k) == written' = Append(written, k)

LoopPcs == {"read", "blocked", "switch"}

\* mutant: handlers installed with SA_NODEFER, nothing blocked while they run
BlockedNone == {}

\* sigemptyset(&siga.sa_mask); siga.sa_flags = 0: while a handler runs only
\* its own signal is blocked
Blocked == {stack[i].sig : i \in 2..Len(stack)}

\* mutant: the failure is reported but exit_handler is not called, and main
\* goes on with the rest of the startup
FallThrough(why) ==
    /\ stack' = [stack EXCEPT ![Len(stack)].pc = "derive"]
    /\ cleanupCalls' = cleanupCalls
    /\ mainExit' = why

\* main calls exit_handler(0)
CallExitHandler(why) ==
    /\ stack' = [stack EXCEPT ![Len(stack)] =
                    [fn |-> "main", sig |-> 0, pc |-> "c_if", inv |-> cleanupCalls + 1]]
    /\ cleanupCalls' = cleanupCalls + 1
    /\ mainExit' = why

\* ------------------------------------------------------------- startup
Init ==
    /\ status = "running" /\ exitCode = 0 - 1 /\ killedBy = 0
    /\ stack = <<[fn |-> "main", sig |-> 0, pc |-> "open", inv |-> 0]>>
    /\ fd = 0
    /\ oldttystate = ZeroMode /\ ttystate = ZeroMode
    /\ cleanupP = 0
    /\ rd = RZero
    /\ openFds = {}
    /\ dev \in Modes
    /\ disp = [s \in Signals |-> "default"]
    /\ pending = {}
    /\ out = <<>> /\ written = <<>>
    /\ devInit = dev
    /\ results = <<>> /\ raised = [s \in Signals |-> 0]
    /\ restoreWrites = 0 /\ restoreOK = 0 /\ closeCalls = 0 /\ cleanupCalls = 0
    /\ rawApplied = FALSE
    /\ mainExit = "none"
    /\ steps = <<>>

\* if ((_global_fd = open("/dev/tty",O_RDONLY)) < 1) exit_handler(0);
Open ==
    /\ AtMain("open")
    /\ steps' = Append(steps, "open")
    /\ \E r \in OpenResults :
        /\ fd' = r
        /\ openFds' = IF r >= 0 THEN {r} ELSE {}
        /\ IF r < 1
              THEN CallExitHandler("open")
              ELSE Goto("getpgrp") /\ UNCHANGED <<cleanupCalls, mainExit>>
    /\ UNCHANGED <<ended, oldttystate, ttystate, cleanupP, rd, dev, disp, pending, io,
                   devInit, results, raised, restoreWrites, restoreOK,
                   closeCalls, rawApplied>>

\* if ((pgrp = tcgetpgrp(_global_fd)) < 0) exit_handler(0);
GetPgrp ==
    /\ AtMain("getpgrp")
    /\ steps' = Append(steps, "tcgetpgrp")
    /\ \E ok \in BOOLEAN :
        IF ok THEN Goto("setpgrp") /\ UNCHANGED <<cleanupCalls, mainExit>>
              ELSE CallExitHandler("getpgrp")
    /\ UNCHANGED <<ended, prog, sys, io, devInit, results, raised,
                   restoreWrites, restoreOK, closeCalls, rawApplied>>

\* if (tcsetpgrp(_global_fd, pgrp) < 0) exit_handler(0);
SetPgrp ==
    /\ AtMain("setpgrp")
    /\ steps' = Append(steps, "tcsetpgrp")
    /\ \E ok \in BOOLEAN :
        IF ok THEN Goto("getattr") /\ UNCHANGED <<cleanupCalls, mainExit>>
              ELSE CallExitHandler("setpgrp")
    /\ UNCHANGED <<ended, prog, sys, io, devInit, results, raised,
                   restoreWrites, restoreOK, closeCalls, rawApplied>>

\* if (tcgetattr(_global_fd, &oldttystate) < 0) exit_handler(0);
GetAttr ==
    /\ AtMain("getattr")
    /\ steps' = Append(steps, "tcgetattr")
    /\ \E ok \in BOOLEAN :
        IF ok THEN /\ oldttystate' = dev
                   /\ Goto("derive")
                   /\ UNCHANGED <<cleanupCalls, mainExit>>
              ELSE /\ CallExitHandler("getattr")
                   /\ UNCHANGED oldttystate
    /\ UNCHANGED <<ended, fd, ttystate, cleanupP, rd, sys, io, devInit, results,
                   raised, restoreWrites, restoreOK, closeCalls, rawApplied>>

\* mutant: the working mode built from an empty termios instead of a copy
RawFromZero(m) == [ZeroMode EXCEPT !.vquit = QuitSentinel]

\* ttystate = oldttystate; c_lflag &= ~ICANON; c_lflag &= ~ECHO;
\* c_cc[VQUIT] = CTRL('g');
Raw(m) == [m EXCEPT !.icanon = FALSE, !.echo = FALSE, !.vquit = QuitSentinel]

\* mutant: the working mode is built in oldttystate itself and then copied
DeriveInPlace ==
    /\ AtMain("derive")
    /\ oldttystate' = Raw(oldttystate)
    /\ ttystate' = oldttystate'
    /\ Goto("setattr")
    /\ UNCHANGED <<ended, fd, cleanupP, rd, sys, io, hist>>

Derive ==
    /\ AtMain("derive")
    /\ ttystate' = Raw(oldttystate)
    /\ Goto("setattr")
    /\ UNCHANGED <<ended, fd, oldttystate, cleanupP, rd, sys, io, hist>>

\* if (tcsetattr(_global_fd, TCSANOW, &ttystate) < 0) exit_handler(0);
SetAttr ==
    /\ AtMain("setattr")
    /\ steps' = Append(steps, "tcsetattr")
    /\ \E ok \in BOOLEAN :
        IF ok THEN /\ dev' = ttystate
                   /\ rawApplied' = TRUE
                   /\ Goto("arm")
                   /\ UNCHANGED <<cleanupCalls, mainExit>>
              ELSE /\ CallExitHandler("setattr")
                   /\ UNCHANGED <<dev, rawApplied>>
    /\ UNCHANGED <<ended, prog, openFds, disp, pending, io, devInit, results,
                   raised, restoreWrites, restoreOK, closeCalls>>

\* mutant: the handlers are installed without the flag having been set
ArmSkipped ==
    /\ AtMain("arm")
    /\ cleanupP' = cleanupP
    /\ steps' = Append(steps, "arm")
    /\ Goto("sigint")
    /\ UNCHANGED <<ended, fd, oldttystate, ttystate, rd, sys, io, devInit, results,
                   raised, restoreWrites, restoreOK, closeCalls, cleanupCalls,
                   rawApplied, mainExit>>

\* cleanupP = 1;
Arm ==
    /\ AtMain("arm")
    /\ cleanupP' = 1
    /\ steps' = Append(steps, "arm")
    /\ Goto("sigint")
    /\ UNCHANGED <<ended, fd, oldttystate, ttystate, rd, sys, io, devInit, results,
                   raised, restoreWrites, restoreOK, closeCalls, cleanupCalls,
                   rawApplied, mainExit>>

Install(p, s, h, next) ==
    /\ AtMain(p)
    /\ disp' = [disp EXCEPT ![s] = h]
    /\ Goto(next)
    /\ UNCHANGED <<ended, prog, openFds, dev, pending, io, hist>>

\* siga.sa_handler = handler2; sigaction(SIGINT, &siga, 0);
InstallInt == Install("sigint", SIGINT, "handler2", "sigquit")
\* siga.sa_handler = handler3; sigaction(SIGQUIT, &siga, 0);
InstallQuit == Install("sigquit", SIGQUIT, "handler3", "sighup")
\* siga.sa_handler = exit_handler; sigaction(SIGHUP, &siga, 0);
InstallHup == Install("sighup", SIGHUP, "exit_handler", "sigterm")
\* sigaction(SIGTERM, &siga, 0);
InstallTerm == Install("sigterm", SIGTERM, "exit_handler", "banner")

\* printf("Use C-c and C-g for async actions, end with C-d\n");
Banner ==
    /\ AtMain("banner")
    /\ Emit("banner", 0)
    /\ Goto("read")
    /\ UNCHANGED <<ended, prog, sys, written, hist>>

\* ----------------------------------------------------------- read loop
EINTR == RErr("EINTR")

\* read results that came from the terminal (not from an interrupting signal)
NInput == Cardinality({i \in DOMAIN results : results[i] # EINTR})

\* while (1) { switch (read(_global_fd,c,1)) {: the call is entered
EnterRead ==
    /\ AtMain("read")
    /\ Goto("blocked")
    /\ UNCHANGED <<ended, prog, sys, io, hist>>

\* the blocked read returns because of the terminal
ReadReturn ==
    /\ AtMain("blocked")
    /\ NInput < MaxReads
    /\ \E r \in InputResults :
        /\ rd' = r
        /\ results' = Append(results, r)
    /\ Goto("switch")
    /\ UNCHANGED <<ended, fd, oldttystate, ttystate, cleanupP, sys, io, devInit,
                   raised, restoreWrites, restoreOK, closeCalls,
                   cleanupCalls, rawApplied, steps, mainExit>>

\* mutant: case -1 without the errno test
ClassifyNoEintr(r) ==
    IF r.ret = 0 - 1 THEN "readerr"
    ELSE IF r.ret = 0 THEN "eof0"
    ELSE IF r.ch = CEOF THEN "eofc"
    ELSE "echo"

\* mutant: case 0 missing, a zero-byte read falls into the default case
ClassifyZeroIgnored(r) ==
    IF r.ret = 0 - 1 THEN (IF r.err = "EINTR" THEN "retry" ELSE "readerr")
    ELSE IF r.ret = 1 /\ r.ch = CEOF THEN "eofc"
    ELSE "echo"

\* case -1: if (errno == EINTR) continue; ... exit_handler(0);
\* case 0: ... exit_handler(0);
\* default: if (c[0] == CEOF) { ... exit_handler(0); } printf("You typed ...
Classify(r) ==
    IF r.ret = 0 - 1 THEN (IF r.err = "EINTR" THEN "retry" ELSE "readerr")
    ELSE IF r.ret = 0 THEN "eof0"
    ELSE IF r.ch = CEOF THEN "eofc"
    ELSE "echo"

Switch ==
    /\ AtMain("switch")
    /\ LET k == Classify(rd) IN
        CASE k = "retry" ->
                /\ Goto("read")
                /\ UNCHANGED <<out, cleanupCalls, mainExit>>
          [] k = "readerr" ->
                /\ CallExitHandler(k)
                /\ UNCHANGED out
          [] k \in {"eof0", "eofc"} ->
                /\ Emit(k, 0)
                /\ CallExitHandler(k)
          [] OTHER ->
                /\ Emit("echo", rd.ch)
                /\ Goto("read")
                /\ UNCHANGED <<cleanupCalls, mainExit>>
    /\ UNCHANGED <<ended, prog, sys, written, devInit, results, raised,
                   restoreWrites, restoreOK, closeCalls, rawApplied, steps>>

\* ------------------------------------------- cleanup and exit_handler
CleanupFns == {"main", "exit_handler"}

\* mutant: cleanup restores without testing the flag
AlwaysRestore == TRUE

\* if (cleanupP) {
ShouldRestore == cleanupP # 0

\* mutant: cleanup writes the working mode back
RestoreWorking == ttystate

\* tcsetattr(_global_fd, TCSANOW, &oldttystate)
RestoreValue == oldttystate

\* mutant: the signal number used as exit status
ExitStatusSig(sig) == sig

\* exit(0);
ExitStatus(sig) == 0

CleanupIf ==
    /\ At(CleanupFns, "c_if")
    /\ IF ShouldRestore
          THEN Emit("reset", 0) /\ Goto("c_tcsetattr")
          ELSE UNCHANGED out /\ Goto("c_close")
    /\ UNCHANGED <<ended, prog, sys, written, hist>>

\* if (tcsetattr(_global_fd, TCSANOW, &oldttystate) < 0) perror(...);
CleanupTcsetattr ==
    /\ At(CleanupFns, "c_tcsetattr")
    /\ restoreWrites' = restoreWrites + 1
    /\ \E ok \in BOOLEAN :
        IF ok /\ fd \in openFds
           THEN dev' = RestoreValue /\ restoreOK' = restoreOK + 1
           ELSE UNCHANGED <<dev, restoreOK>>
    /\ Goto("c_close")
    /\ UNCHANGED <<ended, prog, openFds, disp, pending, io, devInit, results,
                   raised, closeCalls, cleanupCalls, rawApplied, steps, mainExit>>

\* close(_global_fd);
CleanupClose ==
    /\ At(CleanupFns, "c_close")
    /\ closeCalls' = closeCalls + 1
    /\ openFds' = openFds \ {fd}
    /\ Goto("e_sig")
    /\ UNCHANGED <<ended, prog, dev, disp, pending, io, devInit, results,
                   raised, restoreWrites, restoreOK, cleanupCalls,
                   rawApplied, steps, mainExit>>

\* mutant: exit_handler run as a signal handler returns instead of calling exit
ExitReturns ==
    /\ At(CleanupFns, "e_sig")
    /\ IF Top.sig # 0 THEN Emit("exitsig", Top.sig) ELSE UNCHANGED out
    /\ IF Len(stack) >= 2
          THEN /\ stack' = SubSeq(stack, 1, Len(stack) - 1)
               /\ UNCHANGED <<status, exitCode>>
          ELSE /\ status' = "exited"
               /\ exitCode' = ExitStatus(Top.sig)
               /\ UNCHANGED stack
    /\ UNCHANGED <<killedBy, prog, sys, written, hist>>

\* if (sig) printf("Exiting on signal %d\n",sig); exit(0);
Exit ==
    /\ At(CleanupFns, "e_sig")
    /\ IF Top.sig # 0 THEN Emit("exitsig", Top.sig) ELSE UNCHANGED out
    /\ status' = "exited"
    /\ exitCode' = ExitStatus(Top.sig)
    /\ UNCHANGED <<killedBy, stack, prog, sys, written, hist>>

\* ------------------------------------------------- notify-only handlers
\* the handler returns; a read it interrupted returns -1 with errno EINTR
Return ==
    LET below == stack[Len(stack) - 1]
        rest == SubSeq(stack, 1, Len(stack) - 1) IN
    IF below.pc = "blocked"
       THEN /\ stack' = [rest EXCEPT ![Len(rest)].pc = "switch"]
            /\ rd' = EINTR
            /\ results' = Append(results, EINTR)
       ELSE /\ stack' = rest
            /\ UNCHANGED <<rd, results>>

Notify(fn, k) ==
    /\ At({fn}, "h_write")
    /\ Write(k)
    /\ Return
    /\ UNCHANGED <<ended, fd, oldttystate, ttystate, cleanupP, sys, out, devInit,
                   raised, restoreWrites, restoreOK, closeCalls,
                   cleanupCalls, rawApplied, steps, mainExit>>

\* mutant: handler2 also clears the cleanup flag
Handler2Disarms ==
    /\ At({"handler2"}, "h_write")
    /\ Write("sigint")
    /\ Return
    /\ cleanupP' = 0
    /\ UNCHANGED <<ended, fd, oldttystate, ttystate, sys, out, devInit,
                   raised, restoreWrites, restoreOK, closeCalls,
                   cleanupCalls, rawApplied, steps, mainExit>>

\* write(1, "Async action on sigint (2)\n", ...)
Handler2 == Notify("handler2", "sigint")
\* write(1, "Async action on sigquit (3)\n", ...)
Handler3 == Notify("handler3", "sigquit")

\* ---------------------------------------------------------------- signals
NRaised == raised[SIGHUP] + raised[SIGINT] + raised[SIGQUIT] + raised[SIGTERM]

\* the signal's action is taken: the default action ends the process, a
\* handler starts on top of the frame that was running
Invoke(s) ==
    CASE disp[s] = "default" ->
            /\ status' = "killed"
            /\ killedBy' = s
            /\ UNCHANGED <<exitCode, stack, cleanupCalls>>
      [] disp[s] = "exit_handler" ->
            /\ stack' = Append(stack, [fn |-> "exit_handler", sig |-> s,
                                       pc |-> "c_if", inv |-> cleanupCalls + 1])
            /\ cleanupCalls' = cleanupCalls + 1
            /\ UNCHANGED ended
      [] OTHER ->
            /\ stack' = Append(stack, [fn |-> disp[s], sig |-> s,
                                       pc |-> "h_write", inv |-> 0])
            /\ UNCHANGED <<ended, cleanupCalls>>

\* a signal is sent to the process at an arbitrary point: it is delivered to
\* the running frame, unless it is blocked, and then it stays pending (a
\* signal already pending is not queued a second time)
Raise(s) ==
    /\ Running
    /\ NRaised < MaxSignals
    /\ raised' = [raised EXCEPT ![s] = @ + 1]
    /\ IF s \in Blocked
          THEN /\ pending' = pending \cup {s}
               /\ UNCHANGED <<ended, stack, cleanupCalls>>
          ELSE /\ Invoke(s)
               /\ UNCHANGED pending
    /\ UNCHANGED <<prog, openFds, dev, disp, io, devInit, results,
                   restoreWrites, restoreOK, closeCalls, rawApplied, steps, mainExit>>

\* a pending signal is delivered once its handler has returned
Deliver(s) ==
    /\ Running
    /\ s \in pending \ Blocked
    /\ pending' = pending \ {s}
    /\ Invoke(s)
    /\ UNCHANGED <<prog, openFds, dev, disp, io, devInit, results, raised,
                   restoreWrites, restoreOK, closeCalls, rawApplied, steps, mainExit>>

\* ---------------------------------------------------------- specification
\* steps the process takes by itself
Run ==
    \/ Open \/ GetPgrp \/ SetPgrp \/ GetAttr \/ Derive \/ SetAttr \/ Arm
    \/ InstallInt \/ InstallQuit \/ InstallHup \/ InstallTerm \/ Banner
    \/ EnterRead \/ Switch
    \/ CleanupIf \/ CleanupTcsetattr \/ CleanupClose \/ Exit
    \/ Handler2 \/ Handler3

Next ==
    \/ Open \/ GetPgrp \/ SetPgrp \/ GetAttr \/ Derive \/ SetAttr \/ Arm
    \/ InstallInt \/ InstallQuit \/ InstallHup \/ InstallTerm \/ Banner
    \/ EnterRead \/ ReadReturn \/ Switch
    \/ CleanupIf \/ CleanupTcsetattr \/ CleanupClose \/ Exit
    \/ Handler2 \/ Handler3
    \/ \E s \in Signals : Raise(s)
    \/ \E s \in Signals : Deliver(s)

Spec == Init /\ [][Next]_vars

\* the running frame keeps executing, and a deliverable signal is delivered
FairSpec == Spec /\ WF_vars(Run) /\ WF_vars(\E s \in Signals : Deliver(s))

TypeOK ==
    /\ status \in {"running", "exited", "killed"}
    /\ cleanupP \in {0, 1}
    /\ dev \in Modes
    /\ pending \subseteq Signals
    /\ Len(stack) >= 1 /\ stack[1].fn = "main"

\* ==================================================================== claims

\* C1: whenever raw mode has been applied to the device, the device's
\* attributes equal the original mode when the process ends, whichever way
\* it ends.  (Fails: a signal between the raw-mode write and the installation
\* of its handler ends the process by default action, with no cleanup.)
C1_RestoredAtEnd == (status # "running" /\ rawApplied) => dev = devInit

\* C2: a second or later invocation of teardown performs no
\* terminal-attribute write and no close, and has no effect on the device or
\* the handle.  (Fails: cleanup never clears cleanupP.)
LaterTeardown == Running /\ Top.fn \in CleanupFns /\ Top.inv >= 2
C2_IdempotentTeardown ==
    [][LaterTeardown =>
          /\ restoreWrites' = restoreWrites
          /\ closeCalls' = closeCalls
          /\ dev' = dev
          /\ openFds' = openFds]_vars

\* C3: over a whole execution, under every interleaving of handler and
\* main-body steps, there is at most one restoration write and at most one
\* close of the handle.  (Fails whenever teardown is entered twice.)
C3_AtMostOneRestoreAndClose == restoreWrites <= 1 /\ closeCalls <= 1

\* C4: when the same terminate-bound signal is raised twice in immediate
\* succession while main is in the read loop (and no other signal is
\* raised), there is exactly one restoration write and exactly one close,
\* and the process ends, by exit.
SameSignalTwice(s) ==
    /\ raised[s] = 2
    /\ \A t \in Signals \ {s} : raised[t] = 0
    /\ MainFrame.pc \in LoopPcs
C4_Once ==
    \A s \in TerminateSignals :
        SameSignalTwice(s) =>
            /\ restoreWrites <= 1 /\ closeCalls <= 1
            /\ cleanupCalls = 1
            /\ status # "killed"
            /\ status = "exited" =>
                  restoreWrites = 1 /\ closeCalls = 1 /\ openFds = {}
C4_SameSignalTwice ==
    /\ []C4_Once
    /\ (\E s \in TerminateSignals : SameSignalTwice(s)) ~> (status = "exited")
C4_Witness ==
    /\ SameSignalTwice(SIGHUP)
    /\ status = "exited"
    /\ SIGHUP \in pending
    /\ restoreOK = 1

\* C5: teardown writes terminal attributes only if cleanupP is set, and
\* cleanupP is set only after the raw-mode write succeeded; so where raw
\* mode was never applied no restoration write is ever attempted.
C5_ArmedOnlyRestore ==
    /\ (Running /\ Top.pc = "c_tcsetattr") => cleanupP # 0
    /\ restoreWrites > 0 => cleanupP # 0
    /\ cleanupP # 0 => rawApplied
    /\ ~rawApplied => restoreWrites = 0
C5_Witness ==
    /\ status = "exited"
    /\ mainExit = "setattr"
    /\ ~rawApplied
    /\ closeCalls = 1
    /\ restoreWrites = 0

\* C6: for every original mode M, once raw mode was applied and a
\* restoration write of teardown has succeeded, the device's attributes
\* equal M exactly.
C6_RestorationFidelity == restoreOK > 0 => (rawApplied /\ dev = devInit)
C6_Witness ==
    /\ restoreOK > 0
    /\ devInit = [icanon |-> TRUE, echo |-> TRUE, vquit |-> 28, veof |-> 4]
    /\ ttystate = [icanon |-> FALSE, echo |-> FALSE, vquit |-> 7, veof |-> 4]
    /\ dev = devInit
    /\ status = "exited"

\* C7: an interrupt or quit signal delivered while main is blocked in the
\* read never ends the process; the read then returns -1 with EINTR, which
\* main retries with no other action; and a byte read is classified by its
\* value alone (Ctrl-D ends the loop, any other byte is echoed), whatever
\* signals came before it.
MainStep == Len(stack) = 1 /\ Len(stack') = 1 /\ stack' # stack
C7_Step ==
    /\ \A s \in NotifySignals :
          (AtMain("blocked") /\ raised'[s] > raised[s]) =>
              /\ status' = "running"
              /\ Len(stack') = 2
              /\ stack'[2].fn \in {"handler2", "handler3"}
              /\ stack'[1] = stack[1]
    /\ (Running /\ Len(stack) = 2 /\ Top.fn \in {"handler2", "handler3"}
          /\ MainFrame.pc = "blocked" /\ Len(stack') = 1) =>
              /\ status' = "running"
              /\ rd' = EINTR
              /\ stack'[1].pc = "switch"
    /\ (AtMain("switch") /\ rd = EINTR /\ MainStep) =>
              /\ stack'[1] = [stack[1] EXCEPT !.pc = "read"]
              /\ UNCHANGED <<ended, prog, sys, io, hist>>
    /\ (AtMain("switch") /\ rd.ret = 1 /\ MainStep) =>
              IF rd.ch = 4
                 THEN mainExit' = "eofc" /\ stack'[1].pc = "c_if"
                 ELSE /\ out' = Append(out, [k |-> "echo", c |-> rd.ch])
                      /\ stack'[1] = [stack[1] EXCEPT !.pc = "read"]
                      /\ mainExit' = "none"
C7_InterruptTransparency == [][C7_Step]_vars
C7_Witness ==
    /\ Running
    /\ results = <<EINTR, RByte(97)>>
    /\ out = <<[k |-> "banner", c |-> 0], [k |-> "echo", c |-> 97]>>
    /\ written # <<>>

\* C8: in the read loop a zero-byte read and a read of the end-of-input
\* byte Ctrl-D (4) both make main call exit_handler(0), leave the device,
\* the handle and every program variable as they were, and end with the same
\* exit code.
C8_Step ==
    (AtMain("switch") /\ (rd = RZero \/ rd = RByte(4)) /\ MainStep) =>
        /\ stack'[1] = [fn |-> "main", sig |-> 0, pc |-> "c_if", inv |-> cleanupCalls + 1]
        /\ cleanupCalls' = cleanupCalls + 1
        /\ mainExit' \in {"eof0", "eofc"}
        /\ UNCHANGED <<ended, prog, sys, written, devInit, results, raised,
                       restoreWrites, restoreOK, closeCalls, rawApplied, steps>>
C8_EndOfInputEquivalence ==
    /\ [][C8_Step]_vars
    /\ []((status # "running" /\ mainExit \in {"eof0", "eofc"}) =>
              (status = "exited" /\ exitCode = 0))
C8_Witness ==
    /\ status = "exited"
    /\ mainExit = "eofc"
    /\ results = <<RByte(4)>>
    /\ exitCode = 0
    /\ dev = devInit

\* C9 as stated: whenever the process ends, it ends with exit code 0.
\* (Fails: a signal whose handler is not yet installed ends the process by
\* its default action.)
C9_AlwaysExitZero == status # "running" => exitCode = 0

\* C9 as amended: whenever the process ends by calling exit it ends with
\* exit code 0; it ends otherwise only by the default action of a signal
\* whose handler was not installed yet.
C9_ExitZeroOrDefaultAction ==
    /\ status = "exited" => exitCode = 0
    /\ status = "killed" =>
          /\ killedBy \in Signals
          /\ disp[killedBy] = "default"
          /\ MainFrame.pc \notin LoopPcs
C9_Witness ==
    /\ status = "exited"
    /\ Top.fn = "exit_handler"
    /\ Top.sig = SIGTERM
    /\ exitCode = 0

\* C10: the loop emits exactly one echo notification per ordinary byte, in
\* input order, nothing for an interrupted read, and calls exit_handler
\* exactly once, at the first zero-byte result, Ctrl-D byte or error other
\* than EINTR, consuming no result after it; without such a result main
\* does not leave the loop.
IsTerminator(r) == r.ret = 0 \/ (r.ret = 1 /\ r.ch = 4) \/ (r.ret = 0 - 1 /\ r.err # "EINTR")
RECURSIVE LoopOutput(_)
LoopOutput(rs) ==
    IF rs = <<>> THEN <<>>
    ELSE LET r == Head(rs) IN
         (IF r.ret = 1 /\ r.ch # 4 THEN <<[k |-> "echo", c |-> r.ch]>>
          ELSE IF r.ret = 1 THEN <<[k |-> "eofc", c |-> 0]>>
          ELSE IF r.ret = 0 THEN <<[k |-> "eof0", c |-> 0]>>
          ELSE <<>>) \o LoopOutput(Tail(rs))
FromLoop(e) == e.k \in {"echo", "eof0", "eofc"}
Classified == IF MainFrame.pc = "switch" THEN SubSeq(results, 1, Len(results) - 1) ELSE results
MainCleanupCalls == cleanupCalls - Cardinality({i \in 2..Len(stack) : stack[i].fn = "exit_handler"})
LoopExits == {"readerr", "eof0", "eofc"}
C10_ReadLoop ==
    /\ SelectSeq(out, FromLoop) = LoopOutput(Classified)
    /\ \A i \in 1..(Len(results) - 1) : ~IsTerminator(results[i])
    /\ mainExit \in LoopExits <=> (Classified # <<>> /\ IsTerminator(Classified[Len(Classified)]))
    /\ MainCleanupCalls = (IF mainExit = "none" THEN 0 ELSE 1)
    /\ MainFrame.pc \in LoopPcs => mainExit = "none"
C10_Witness ==
    /\ results = <<RByte(97), EINTR, RByte(4)>>
    /\ mainExit = "eofc"
    /\ SelectSeq(out, FromLoop) = <<[k |-> "echo", c |-> 97], [k |-> "eofc", c |-> 0]>>
    /\ status = "exited"

\* C11: every failure of a startup step is immediately fatal: main enters
\* exit_handler(0) at once and stays in it, no later startup step and no
\* read is made, no terminal attribute is written, cleanupP stays 0, and the
\* process ends by exit after the close (unless a signal, none of which has
\* a handler yet, ends it first).
StartupFailures == {"open", "getpgrp", "setpgrp", "getattr", "setattr"}
FailedStep(why) == IF why = "open" THEN "open" ELSE "tc" \o why
C11_StartupFailureFatal ==
    mainExit \in StartupFailures =>
        /\ MainFrame.pc \in {"c_if", "c_close", "e_sig"}
        /\ steps[Len(steps)] = FailedStep(mainExit)
        /\ results = <<>>
        /\ ~rawApplied /\ restoreWrites = 0 /\ dev = devInit
        /\ cleanupP = 0
        /\ \A s \in Signals : disp[s] = "default"
        /\ Running => ENABLED Run
        /\ status = "exited" => (closeCalls = 1 /\ exitCode = 0)
        /\ status = "killed" => killedBy \in Signals
C11_Witness ==
    /\ status = "exited"
    /\ mainExit = "getattr"
    /\ steps = <<"open", "tcgetpgrp", "tcsetpgrp", "tcgetattr">>
    /\ closeCalls = 1
    /\ dev = devInit

IsPrefix(a, b) == Len(a) <= Len(b) /\ a = SubSeq(b, 1, Len(a))

\* C12 as stated: the startup steps happen in the order open, capture of
\* the original mode, get and set of the foreground process group, raw-mode
\* write, arming.  (Fails: the code calls tcgetpgrp right after open.)
C12_CaptureBeforePgrp ==
    IsPrefix(steps, <<"open", "tcgetattr", "tcgetpgrp", "tcsetpgrp", "tcsetattr", "arm">>)

\* C12 as amended: the startup steps happen in the order open, get and set
\* of the foreground process group, capture of the original mode, raw-mode
\* write, arming; the original mode is captured before any terminal
\* attribute is written.
CodeOrder == <<"open", "tcgetpgrp", "tcsetpgrp", "tcgetattr", "tcsetattr", "arm">>
C12_StartupOrder ==
    /\ IsPrefix(steps, CodeOrder)
    /\ cleanupP # 0 <=> steps = CodeOrder
    /\ rawApplied => (Len(steps) >= 5 /\ oldttystate = devInit)
    /\ oldttystate # ZeroMode => Len(steps) >= 4
    /\ Len(steps) < 5 => dev = devInit
C12_Witness ==
    /\ steps = CodeOrder
    /\ cleanupP = 1
    /\ oldttystate = devInit
    /\ dev = ttystate

NotifyFrames == {i \in 2..Len(stack) : stack[i].fn \in {"handler2", "handler3"}}

\* C13 as stated: while one notify-only handler is executing, no other
\* notify-only handler invocation begins.  (Fails: sa_mask is empty, so
\* SIGQUIT is delivered while handler2 runs, and SIGINT while handler3 runs.)
C13_NoNestedNotify == Cardinality(NotifyFrames) <= 1

\* C13 as amended: a handler never runs concurrently with itself: no two
\* frames on the stack handle the same signal (a signal raised while its own
\* handler runs stays pending, which happens only to signals with a handler).
C13_NoSelfNesting ==
    /\ \A i, j \in 2..Len(stack) : i # j => stack[i].sig # stack[j].sig
    /\ \A i, j \in NotifyFrames : i # j => stack[i].fn # stack[j].fn
    /\ \A s \in pending : disp[s] # "default"
C13_Witness ==
    /\ Running
    /\ Len(stack) = 2
    /\ Top.fn = "handler2"
    /\ SIGINT \in pending
    /\ raised[SIGINT] = 2

\* C14: an invocation of handler2 or handler3 leaves the device handle, the
\* original mode, cleanupP and the device's mode unchanged and only writes
\* its fixed message to descriptor 1; in signal context only exit_handler
\* changes that state.
GuardState == <<fd, openFds, oldttystate, cleanupP, dev>>
C14_Step ==
    /\ (Running /\ Top.fn \in {"handler2", "handler3"} /\ Len(stack') < Len(stack)) =>
          /\ UNCHANGED <<GuardState, out, ended, disp>>
          /\ written' = Append(written, IF Top.fn = "handler2" THEN "sigint" ELSE "sigquit")
    /\ (Len(stack') > Len(stack) /\ stack'[Len(stack')].fn \in {"handler2", "handler3"}) =>
          UNCHANGED <<GuardState, io>>
    /\ (Len(stack) >= 2 /\ GuardState' # GuardState) => Top.fn = "exit_handler"
    /\ written' # written => Top.fn \in {"handler2", "handler3"}
C14_NotifyFrame == [][C14_Step]_vars
C14_Witness ==
    /\ Running
    /\ Len(stack) = 1
    /\ written = <<"sigint", "sigquit">>
    /\ cleanupP = 1
    /\ dev = ttystate
    /\ openFds = {fd}

\* C15: the original mode is captured at most once and never changes after
\* its capture; the working mode is written to the device at most once, and
\* before the first read of the loop.
Count(seq, x) == Cardinality({i \in DOMAIN seq : seq[i] = x})
C15_State ==
    /\ Count(steps, "tcgetattr") <= 1
    /\ Count(steps, "tcsetattr") <= 1
    /\ (MainFrame.pc \in {"blocked", "switch"} \/ results # <<>>) =>
          (rawApplied /\ oldttystate = devInit)
C15_Step ==
    /\ oldttystate' # oldttystate =>
          (AtMain("getattr") /\ oldttystate = ZeroMode /\ oldttystate' = dev)
    /\ oldttystate # ZeroMode => oldttystate' = oldttystate
    /\ (dev' # dev /\ dev' # devInit) =>
          (AtMain("setattr") /\ ~rawApplied /\ rawApplied' /\ results = <<>>
             /\ dev' = ttystate)
    /\ rawApplied => rawApplied'
C15_CaptureAndRawOnce == []C15_State /\ [][C15_Step]_vars
C15_Witness ==
    /\ Running
    /\ MainFrame.pc = "switch"
    /\ results = <<RByte(97), RByte(100)>>
    /\ oldttystate = devInit
    /\ dev = ttystate
    /\ dev # devInit

\* C16: the working mode has the canonical flag cleared, the echo flag
\* cleared and the quit character Ctrl-G (7), and equals the original mode
\* in everything else, the end-of-input character included; this is the mode
\* the raw-mode write puts on the device.
Derived == \E i \in DOMAIN steps : steps[i] = "tcsetattr"
C16_WorkingMode ==
    Derived =>
        /\ ttystate.icanon = FALSE
        /\ ttystate.echo = FALSE
        /\ ttystate.vquit = 7
        /\ DOMAIN ttystate = DOMAIN oldttystate
        /\ \A f \in DOMAIN ttystate \ {"icanon", "echo", "vquit"} :
              ttystate[f] = oldttystate[f]
        /\ ttystate.veof = devInit.veof
        /\ (rawApplied /\ restoreOK = 0) => dev = ttystate
C16_Witness ==
    /\ Running
    /\ rawApplied
    /\ devInit = [icanon |-> TRUE, echo |-> TRUE, vquit |-> 28, veof |-> 4]
    /\ dev = [icanon |-> FALSE, echo |-> FALSE, vquit |-> 7, veof |-> 4]
    /\ restoreWrites = 0

\* C17: a hangup or termination signal delivered once its handler is
\* installed starts exit_handler, which never returns: main does not resume
\* (no further read, classification or echo); once all four handlers are
\* installed the process is not ended by a default action and ends by exit,
\* after which nothing happens.  A delivered interrupt or quit signal leaves
\* the process running and every installed handler installed.
AllInstalled == \A s \in Signals : disp[s] # "default"
Terminating == \E i \in 2..Len(stack) : stack[i].fn = "exit_handler"
C17_Step ==
    /\ status = "running"
    /\ Terminating =>
          /\ Terminating'
          /\ stack'[1] = stack[1]
          /\ results' = results
          /\ SelectSeq(out', FromLoop) = SelectSeq(out, FromLoop)
          /\ AllInstalled => status' # "killed"
    /\ \A s \in Signals : disp[s] # "default" => disp'[s] = disp[s]
    /\ \A s \in TerminateSignals :
          (raised'[s] > raised[s] /\ disp[s] = "exit_handler" /\ s \notin Blocked) =>
              /\ Len(stack') = Len(stack) + 1
              /\ stack'[Len(stack')].fn = "exit_handler"
              /\ stack'[Len(stack')].sig = s
              /\ stack'[Len(stack')].pc = "c_if"
              /\ status' = "running"
    /\ \A s \in NotifySignals :
          (raised'[s] > raised[s] /\ disp[s] # "default") => status' = "running"
C17_TerminateAbsorbing ==
    /\ [][C17_Step]_vars
    /\ []((Terminating /\ AllInstalled) => status # "killed")
    /\ (Terminating /\ AllInstalled) ~> (status = "exited")
C17_Witness ==
    /\ status = "exited"
    /\ Top.fn = "exit_handler"
    /\ Top.sig = SIGHUP
    /\ AllInstalled
    /\ MainFrame.pc = "blocked"
    /\ written = <<"sigint">>
    /\ results = <<>>

\* C18: teardown closes the device handle only when it is open; after a
\* failed open of the terminal the terminate path performs no close.
\* (Fails: cleanup calls close(_global_fd) whatever the value of
\* _global_fd, so a failed open is followed by close(-1), or by close(0)
\* when open returned 0.)
C18_NoCloseAfterFailedOpen == mainExit = "open" => closeCalls = 0

\* C19: a handler is installed only after the working-mode write succeeded
\* and cleanupP was set, so whenever a signal has a program-installed
\* disposition or a handler frame exists, the handle has been opened (open
\* returned a descriptor >= 1), the original mode has been captured from the
\* device and cleanupP is set; hence every teardown run by a signal handler
\* takes the restoring branch: each exit_handler frame past the test made
\* one restoration write.
HandlerFrames == 2..Len(stack)
PastRestore == {i \in DOMAIN stack :
                   /\ stack[i].fn \in CleanupFns
                   /\ stack[i].pc \in {"c_close", "e_sig"}
                   /\ (i \in HandlerFrames \/ cleanupP # 0)}
C19_HandlersRunArmed ==
    /\ (HandlerFrames # {} \/ \E s \in Signals : disp[s] # "default") =>
          /\ steps = CodeOrder
          /\ fd >= 1
          /\ rawApplied
          /\ oldttystate = devInit
          /\ cleanupP = 1
    /\ \A i \in HandlerFrames : stack[i].fn = disp[stack[i].sig]
    /\ restoreWrites = Cardinality(PastRestore)
C19_Witness ==
    /\ Len(stack) = 3
    /\ stack[2].fn = "handler2"
    /\ stack[3].fn = "exit_handler"
    /\ stack[3].pc = "c_close"
    /\ restoreWrites = 1
    /\ cleanupP = 1
    /\ fd \in openFds

====
